---- MODULE Spec2Model ----
(***************************************************************************)
(* Chess piece entities: ChessPiece, and its specializations Rook and Pawn.*)
(* Strings are sequences of character codes (ASCII), so that isalpha and   *)
(* toupper are computed on characters as the code computes them.           *)
(***************************************************************************)
EXTENDS Integers, Sequences, FiniteSets, TLC

VARIABLES self, other, built, last

vars == <<self, other, built, last>>

----------------------------------------------------------------------------
(* Bounds of the model                                                     *)

\* longest color string passed to a constructor or to setColor
MaxLen == 2
\* how far outside [0, BOARD_LENGTH) the row / column arguments reach
Slack == 1
\* largest castleMoves argument passed to the Rook constructor
MaxCastleMoves == 2

----------------------------------------------------------------------------
(* Program constants                                                       *)

\* ChessPiece::BOARD_LENGTH (Pawn.cpp: "the last row (7th row)")
BOARD_LENGTH == 8

\* the fallback color "BLACK"
BLACK == <<66, 76, 65, 67, 75>>

\* string literals written by display()
LIT_PIECE_AT == <<32, 112, 105, 101, 99, 101, 32, 97, 116, 32, 40>>
LIT_COMMA == <<44>>
LIT_IS_MOVING == <<41, 32, 105, 115, 32, 109, 111, 118, 105, 110, 103, 32>>
LIT_UP == <<85, 80>>
LIT_DOWN == <<68, 79, 87, 78>>
LIT_NOT_ON_BOARD == <<32, 112, 105, 101, 99, 101, 32, 105, 115, 32, 110, 111,
                      116, 32, 111, 110, 32, 116, 104, 101, 32, 98, 111, 97,
                      114, 100>>
ENDL == <<10>>

----------------------------------------------------------------------------
(* Input domains                                                           *)

\* characters of the color arguments: 'a', 'B', '1'
Chars == {97, 66, 49}

RECURSIVE StringsOfLen(_)
StringsOfLen(n) ==
    IF n = 0 THEN {<<>>}
    ELSE {Append(s, c) : s \in StringsOfLen(n - 1), c \in Chars}

ColorInputs == UNION {StringsOfLen(n) : n \in 0..MaxLen}

\* row and column arguments: the values around both ends of the range
\* [0, BOARD_LENGTH), up to Slack outside it, and two values inside
RowInputs ==
    ((0 - Slack)..0) \cup {2, BOARD_LENGTH - 2}
    \cup ((BOARD_LENGTH - 1)..(BOARD_LENGTH - 1 + Slack))

ColumnInputs ==
    ((0 - Slack)..0) \cup {4}
    \cup ((BOARD_LENGTH - 1)..(BOARD_LENGTH - 1 + Slack))

CastleInputs == (0 - Slack)..MaxCastleMoves

\* the smaller domains used when two pieces are modelled side by side:
\* "w", "W", "b", "w1"
RookColorInputs == {<<119>>, <<87>>, <<98>>, <<119, 49>>}
RookRowInputs == {-1, 0, 1, BOARD_LENGTH}
RookColumnInputs == {-1, 0, 1, 2, BOARD_LENGTH}
RookCastleInputs == {-5, 0, 2}

----------------------------------------------------------------------------
(* <cctype> and <algorithm> helpers, on ASCII codes                        *)

isalpha(c) == (c >= 65 /\ c <= 90) \/ (c >= 97 /\ c <= 122)

\* a toupper that leaves every character as it is
toupper_identity(c) == c

toupper(c) == IF c >= 97 /\ c <= 122 THEN c - 32 ELSE c

max(a, b) == IF a < b THEN b ELSE a

abs(x) == IF x < 0 THEN 0 - x ELSE x

\* the loop "for (char c : color) if (!std::isalpha(c)) { ...false; break; }"
isAlphabetic(color) == \A k \in 1..Len(color) : isalpha(color[k])

\* the loop "for (char& c : color_) c = std::toupper(c);"
toUpperString(color) == [k \in 1..Len(color) |-> toupper(color[k])]

\* operator<<(int): decimal digits, with a leading '-' for negatives
RECURSIVE Digits(_)
Digits(n) ==
    IF n < 10 THEN <<48 + n>>
    ELSE Append(Digits(n \div 10), 48 + (n % 10))

IntToString(n) == IF n < 0 THEN <<45>> \o Digits(0 - n) ELSE Digits(n)

----------------------------------------------------------------------------
(* ChessPiece                                                              *)

\* ChessPiece::ChessPiece()
ChessPiece_default ==
    [kind |-> "ChessPiece", color_ |-> BLACK, row_ |-> -1, column_ |-> -1,
     movingUp_ |-> FALSE, castle_moves_left_ |-> 0,
     double_jumpable_ |-> FALSE]

\* a constructor that validates each coordinate on its own
ChessPiece_ctor_each(color, row, column, movingUp) ==
    [kind |-> "ChessPiece",
     color_ |-> IF isAlphabetic(color) THEN toUpperString(color) ELSE BLACK,
     row_ |-> IF row >= 0 /\ row < BOARD_LENGTH THEN row ELSE -1,
     column_ |-> IF column >= 0 /\ column < BOARD_LENGTH THEN column ELSE -1,
     movingUp_ |-> movingUp,
     castle_moves_left_ |-> 0,
     double_jumpable_ |-> FALSE]

\* ChessPiece::ChessPiece(color, row, column, movingUp)
ChessPiece_ctor(color, row, column, movingUp) ==
    [kind |-> "ChessPiece",
     color_ |-> IF isAlphabetic(color) THEN toUpperString(color) ELSE BLACK,
     row_ |-> IF row >= 0 /\ row < BOARD_LENGTH
                   /\ column >= 0 /\ column < BOARD_LENGTH
              THEN row ELSE -1,
     column_ |-> IF row >= 0 /\ row < BOARD_LENGTH
                      /\ column >= 0 /\ column < BOARD_LENGTH
                 THEN column ELSE -1,
     movingUp_ |-> movingUp,
     castle_moves_left_ |-> 0,
     double_jumpable_ |-> FALSE]

getColor(p) == p.color_

\* a setColor that falls back to "BLACK" as the constructor does
setColor_fallback(p, color) ==
    IF isAlphabetic(color)
    THEN [obj |-> [p EXCEPT !.color_ = toUpperString(color)], ret |-> TRUE]
    ELSE [obj |-> [p EXCEPT !.color_ = BLACK], ret |-> FALSE]

\* ChessPiece::setColor: the piece after the call and the value returned
setColor(p, color) ==
    IF isAlphabetic(color)
    THEN [obj |-> [p EXCEPT !.color_ = toUpperString(color)], ret |-> TRUE]
    ELSE [obj |-> p, ret |-> FALSE]

getRow(p) == p.row_

\* a setRow that resets the row alone
setRow_rowOnly(p, row) ==
    IF row >= 0 /\ row < BOARD_LENGTH
    THEN [p EXCEPT !.row_ = row]
    ELSE [p EXCEPT !.row_ = -1]

setRow(p, row) ==
    IF row >= 0 /\ row < BOARD_LENGTH
    THEN [p EXCEPT !.row_ = row]
    ELSE [p EXCEPT !.row_ = -1, !.column_ = -1]

getColumn(p) == p.column_

\* a setColumn that writes the row, as setRow does
setColumn_writesRow(p, column) ==
    IF column >= 0 /\ column < BOARD_LENGTH
    THEN [p EXCEPT !.row_ = column]
    ELSE [p EXCEPT !.row_ = -1, !.column_ = -1]

setColumn(p, column) ==
    IF column >= 0 /\ column < BOARD_LENGTH
    THEN [p EXCEPT !.column_ = column]
    ELSE [p EXCEPT !.row_ = -1, !.column_ = -1]

isMovingUp(p) == p.movingUp_

setMovingUp(p, movingUp) == [p EXCEPT !.movingUp_ = movingUp]

\* a display that takes a piece with one valid coordinate for on-board
display_either(p) ==
    IF p.row_ # -1 \/ p.column_ # -1
    THEN p.color_ \o LIT_PIECE_AT \o IntToString(p.row_) \o LIT_COMMA
         \o IntToString(p.column_) \o LIT_IS_MOVING
         \o (IF p.movingUp_ THEN LIT_UP ELSE LIT_DOWN) \o ENDL
    ELSE p.color_ \o LIT_NOT_ON_BOARD \o ENDL

\* ChessPiece::display: the characters written to std::cout
display(p) ==
    IF p.row_ # -1 /\ p.column_ # -1
    THEN p.color_ \o LIT_PIECE_AT \o IntToString(p.row_) \o LIT_COMMA
         \o IntToString(p.column_) \o LIT_IS_MOVING
         \o (IF p.movingUp_ THEN LIT_UP ELSE LIT_DOWN) \o ENDL
    ELSE p.color_ \o LIT_NOT_ON_BOARD \o ENDL

----------------------------------------------------------------------------
(* Rook                                                                    *)

\* Rook::Rook()
Rook_default ==
    [ChessPiece_default EXCEPT !.kind = "Rook", !.castle_moves_left_ = 3]

\* a constructor that stores castleMoves unclamped
Rook_ctor_unclamped(color, row, col, movingUp, castleMoves) ==
    [ChessPiece_ctor(color, row, col, movingUp) EXCEPT
        !.kind = "Rook", !.castle_moves_left_ = castleMoves]

\* Rook::Rook(color, row, col, movingUp, castleMoves)
Rook_ctor(color, row, col, movingUp, castleMoves) ==
    [ChessPiece_ctor(color, row, col, movingUp) EXCEPT
        !.kind = "Rook", !.castle_moves_left_ = max(0, castleMoves)]

\* a canCastle that does not look at the column of the other piece
canCastle_noColumnCheck(this, piece) ==
    IF this.castle_moves_left_ <= 0 THEN FALSE
    ELSE IF getColor(this) # getColor(piece) THEN FALSE
    ELSE IF getRow(this) = -1 \/ getColumn(this) = -1
            \/ getRow(piece) = -1 THEN FALSE
    ELSE IF getRow(this) # getRow(piece) THEN FALSE
    ELSE IF abs(getColumn(this) - getColumn(piece)) > 1 THEN FALSE
    ELSE TRUE

canCastle(this, piece) ==
    IF this.castle_moves_left_ <= 0 THEN FALSE
    ELSE IF getColor(this) # getColor(piece) THEN FALSE
    ELSE IF getRow(this) = -1 \/ getColumn(this) = -1
            \/ getRow(piece) = -1 \/ getColumn(piece) = -1 THEN FALSE
    ELSE IF getRow(this) # getRow(piece) THEN FALSE
    ELSE IF abs(getColumn(this) - getColumn(piece)) > 1 THEN FALSE
    ELSE TRUE

getCastleMovesLeft(this) == this.castle_moves_left_

----------------------------------------------------------------------------
(* Pawn                                                                    *)

\* Pawn::Pawn()
Pawn_default ==
    [ChessPiece_default EXCEPT !.kind = "Pawn", !.double_jumpable_ = FALSE]

\* Pawn::Pawn(color, row, column, movingUp, doubleJumpable)
Pawn_ctor(color, row, column, movingUp, doubleJumpable) ==
    [ChessPiece_ctor(color, row, column, movingUp) EXCEPT
        !.kind = "Pawn", !.double_jumpable_ = doubleJumpable]

canDoubleJump(this) == this.double_jumpable_

toggleDoubleJump(this) ==
    [this EXCEPT !.double_jumpable_ = ~this.double_jumpable_]

\* a canPromote that takes BOARD_LENGTH for the last row
canPromote_offByOne(this) ==
    (isMovingUp(this) /\ getRow(this) = BOARD_LENGTH)
    \/ (~isMovingUp(this) /\ getRow(this) = 0)

\* a canPromote that takes every row up to 0 for the first row
canPromote_atMost(this) ==
    (isMovingUp(this) /\ getRow(this) = BOARD_LENGTH - 1)
    \/ (~isMovingUp(this) /\ getRow(this) <= 0)

canPromote(this) ==
    (isMovingUp(this) /\ getRow(this) = BOARD_LENGTH - 1)
    \/ (~isMovingUp(this) /\ getRow(this) = 0)

----------------------------------------------------------------------------
(* The calls made on the pieces                                            *)

\* the record of the last call: its name, arguments, return value, output
NoCall ==
    [op |-> "none", argS |-> <<>>, argI |-> 0, argJ |-> 0, argB |-> FALSE,
     argK |-> 0, argD |-> FALSE, same |-> FALSE,
     ret |-> FALSE, val |-> 0, out |-> <<>>]

\* construction of a ChessPiece, a Rook or a Pawn, by either constructor
Construct(colors, rows, columns, castles) ==
    \/ /\ self = ChessPiece_default
       /\ built = [dflt |-> TRUE, castleMoves |-> 0]
       /\ last = [NoCall EXCEPT !.op = "ChessPiece()"]
    \/ /\ self = Rook_default
       /\ built = [dflt |-> TRUE, castleMoves |-> 0]
       /\ last = [NoCall EXCEPT !.op = "Rook()"]
    \/ /\ self = Pawn_default
       /\ built = [dflt |-> TRUE, castleMoves |-> 0]
       /\ last = [NoCall EXCEPT !.op = "Pawn()"]
    \/ \E color \in colors, row \in rows, column \in columns,
          movingUp \in BOOLEAN :
          \/ /\ self = ChessPiece_ctor(color, row, column, movingUp)
             /\ built = [dflt |-> FALSE, castleMoves |-> 0]
             /\ last = [NoCall EXCEPT !.op = "ChessPiece(...)",
                           !.argS = color, !.argI = row, !.argJ = column,
                           !.argB = movingUp]
          \/ \E castleMoves \in castles :
                /\ self = Rook_ctor(color, row, column, movingUp, castleMoves)
                /\ built = [dflt |-> FALSE, castleMoves |-> castleMoves]
                /\ last = [NoCall EXCEPT !.op = "Rook(...)",
                              !.argS = color, !.argI = row, !.argJ = column,
                              !.argB = movingUp, !.argK = castleMoves]
          \/ \E doubleJumpable \in BOOLEAN :
                /\ self = Pawn_ctor(color, row, column, movingUp,
                                    doubleJumpable)
                /\ built = [dflt |-> FALSE, castleMoves |-> 0]
                /\ last = [NoCall EXCEPT !.op = "Pawn(...)",
                              !.argS = color, !.argI = row, !.argJ = column,
                              !.argB = movingUp, !.argD = doubleJumpable]

Init ==
    /\ Construct(ColorInputs, RowInputs, ColumnInputs, CastleInputs)
    /\ other = ChessPiece_default

Call_getColor ==
    /\ last' = [NoCall EXCEPT !.op = "getColor", !.out = getColor(self)]
    /\ UNCHANGED <<self, other, built>>

Call_setColor(colors) ==
    \E color \in colors :
        /\ self' = setColor(self, color).obj
        /\ last' = [NoCall EXCEPT !.op = "setColor", !.argS = color,
                       !.ret = setColor(self, color).ret]
        /\ UNCHANGED <<other, built>>

Call_getRow ==
    /\ last' = [NoCall EXCEPT !.op = "getRow", !.val = getRow(self)]
    /\ UNCHANGED <<self, other, built>>

Call_setRow(rows) ==
    \E row \in rows :
        /\ self' = setRow(self, row)
        /\ last' = [NoCall EXCEPT !.op = "setRow", !.argI = row]
        /\ UNCHANGED <<other, built>>

Call_getColumn ==
    /\ last' = [NoCall EXCEPT !.op = "getColumn", !.val = getColumn(self)]
    /\ UNCHANGED <<self, other, built>>

Call_setColumn(columns) ==
    \E column \in columns :
        /\ self' = setColumn(self, column)
        /\ last' = [NoCall EXCEPT !.op = "setColumn", !.argI = column]
        /\ UNCHANGED <<other, built>>

Call_isMovingUp ==
    /\ last' = [NoCall EXCEPT !.op = "isMovingUp", !.ret = isMovingUp(self)]
    /\ UNCHANGED <<self, other, built>>

Call_setMovingUp ==
    \E movingUp \in BOOLEAN :
        /\ self' = setMovingUp(self, movingUp)
        /\ last' = [NoCall EXCEPT !.op = "setMovingUp", !.argB = movingUp]
        /\ UNCHANGED <<other, built>>

Call_display ==
    /\ last' = [NoCall EXCEPT !.op = "display", !.out = display(self)]
    /\ UNCHANGED <<self, other, built>>

Call_getCastleMovesLeft ==
    /\ self.kind = "Rook"
    /\ last' = [NoCall EXCEPT !.op = "getCastleMovesLeft",
                   !.val = getCastleMovesLeft(self)]
    /\ UNCHANGED <<self, other, built>>

\* rook.canCastle(piece) with a second piece
Call_canCastle ==
    /\ self.kind = "Rook"
    /\ last' = [NoCall EXCEPT !.op = "canCastle", !.same = FALSE,
                   !.ret = canCastle(self, other)]
    /\ UNCHANGED <<self, other, built>>

\* rook.canCastle(rook)
Call_canCastleSelf ==
    /\ self.kind = "Rook"
    /\ last' = [NoCall EXCEPT !.op = "canCastle", !.same = TRUE,
                   !.ret = canCastle(self, self)]
    /\ UNCHANGED <<self, other, built>>

Call_canDoubleJump ==
    /\ self.kind = "Pawn"
    /\ last' = [NoCall EXCEPT !.op = "canDoubleJump",
                   !.ret = canDoubleJump(self)]
    /\ UNCHANGED <<self, other, built>>

Call_toggleDoubleJump ==
    /\ self.kind = "Pawn"
    /\ self' = toggleDoubleJump(self)
    /\ last' = [NoCall EXCEPT !.op = "toggleDoubleJump"]
    /\ UNCHANGED <<other, built>>

Call_canPromote ==
    /\ self.kind = "Pawn"
    /\ last' = [NoCall EXCEPT !.op = "canPromote", !.ret = canPromote(self)]
    /\ UNCHANGED <<self, other, built>>

\* the setters called on the second piece
Other_setColor ==
    \E color \in RookColorInputs :
        /\ other' = setColor(other, color).obj
        /\ last' = [NoCall EXCEPT !.op = "other.setColor"]
        /\ UNCHANGED <<self, built>>

Other_setRow ==
    \E row \in RookRowInputs :
        /\ other' = setRow(other, row)
        /\ last' = [NoCall EXCEPT !.op = "other.setRow"]
        /\ UNCHANGED <<self, built>>

Other_setColumn ==
    \E column \in RookColumnInputs :
        /\ other' = setColumn(other, column)
        /\ last' = [NoCall EXCEPT !.op = "other.setColumn"]
        /\ UNCHANGED <<self, built>>

Other_setMovingUp ==
    \E movingUp \in BOOLEAN :
        /\ other' = setMovingUp(other, movingUp)
        /\ last' = [NoCall EXCEPT !.op = "other.setMovingUp"]
        /\ UNCHANGED <<self, built>>

----------------------------------------------------------------------------
(* One piece of any kind, every argument of the input domains              *)

Next ==
    \/ Call_getColor
    \/ Call_setColor(ColorInputs)
    \/ Call_getRow
    \/ Call_setRow(RowInputs)
    \/ Call_getColumn
    \/ Call_setColumn(ColumnInputs)
    \/ Call_isMovingUp
    \/ Call_setMovingUp
    \/ Call_display
    \/ Call_getCastleMovesLeft
    \/ Call_canDoubleJump
    \/ Call_toggleDoubleJump
    \/ Call_canPromote

Spec == Init /\ [][Next]_vars

----------------------------------------------------------------------------
(* A rook and a second piece                                               *)

InitRook ==
    /\ Construct(RookColorInputs, RookRowInputs, RookColumnInputs,
                 RookCastleInputs)
    /\ self.kind = "Rook"
    /\ \/ other = ChessPiece_default
       \/ \E color \in RookColorInputs, row \in RookRowInputs,
             column \in RookColumnInputs, movingUp \in BOOLEAN :
             other = ChessPiece_ctor(color, row, column, movingUp)

NextRook ==
    \/ Call_getColor
    \/ Call_setColor(RookColorInputs)
    \/ Call_getRow
    \/ Call_setRow(RookRowInputs)
    \/ Call_getColumn
    \/ Call_setColumn(RookColumnInputs)
    \/ Call_isMovingUp
    \/ Call_setMovingUp
    \/ Call_display
    \/ Call_getCastleMovesLeft
    \/ Call_canCastle
    \/ Call_canCastleSelf
    \/ Other_setColor
    \/ Other_setRow
    \/ Other_setColumn
    \/ Other_setMovingUp

SpecRook == InitRook /\ [][NextRook]_vars

----------------------------------------------------------------------------
(* Vocabulary of the properties                                            *)

UpperLetters == 65..90
LowerLetters == 97..122

AllLetters(s) == \A k \in 1..Len(s) : s[k] \in UpperLetters \cup LowerLetters

Uppercased(s) ==
    [k \in 1..Len(s) |-> IF s[k] \in LowerLetters THEN s[k] - 32 ELSE s[k]]

InRange(n) == n \in 0..(BOARD_LENGTH - 1)

OnBoard(p) == p.row_ # -1 /\ p.column_ # -1

ParamCtors == {"ChessPiece(...)", "Rook(...)", "Pawn(...)"}
DefaultCtors == {"ChessPiece()", "Rook()", "Pawn()"}

\* the line display() is to write for piece p, without the line end
ExpectedLine(p) ==
    IF OnBoard(p)
    THEN p.color_ \o LIT_PIECE_AT \o <<48 + p.row_>> \o LIT_COMMA
         \o <<48 + p.column_>> \o LIT_IS_MOVING
         \o (IF p.movingUp_ THEN LIT_UP ELSE LIT_DOWN)
    ELSE p.color_ \o LIT_NOT_ON_BOARD

LineCount(s) == Cardinality({k \in 1..Len(s) : s[k] = 10})

----------------------------------------------------------------------------
(* C1: a piece is never half-placed: its row is -1 exactly when its column *)
(* is -1, in every state reached by construction and the setters.          *)
C1_NeverHalfPlaced == (self.row_ = -1) = (self.column_ = -1)

(* C2: the stored color is always made of uppercase letters only, or is    *)
(* exactly "BLACK", after construction and after any setColor call.        *)
C2_ColorUpperOrBlack ==
    \/ \A k \in 1..Len(self.color_) : self.color_[k] \in UpperLetters
    \/ self.color_ = BLACK

\* setColor accepted a string with a lowercase letter and stored it
C2_Witness ==
    /\ last.op = "setColor"
    /\ last.ret
    /\ last.argS = <<97, 66>>
    /\ self.color_ = <<65, 66>>

(* C3: setColor(s) with s all letters returns true and stores s            *)
(* uppercased; otherwise it returns false and leaves color, row, column    *)
(* and movingUp as they were.                                              *)
C3_SetColorContract ==
    [][last'.op = "setColor" =>
         IF AllLetters(last'.argS)
         THEN last'.ret /\ self'.color_ = Uppercased(last'.argS)
         ELSE /\ ~last'.ret
              /\ self'.color_ = self.color_
              /\ self'.row_ = self.row_
              /\ self'.column_ = self.column_
              /\ self'.movingUp_ = self.movingUp_]_vars

\* setColor("a1") was rejected on an on-board piece whose color is "A"
C3_Witness ==
    /\ last.op = "setColor"
    /\ ~last.ret
    /\ last.argS = <<97, 49>>
    /\ self.color_ = <<65>>
    /\ OnBoard(self)
    /\ self.movingUp_

(* C4: a parameterized constructor of ChessPiece, Rook or Pawn stores      *)
(* (row, column) as given when both are in [0, BOARD_LENGTH), and (-1, -1) *)
(* otherwise; a default constructor stores (-1, -1).                       *)
C4_CtorPosition ==
    /\ last.op \in ParamCtors =>
          IF InRange(last.argI) /\ InRange(last.argJ)
          THEN self.row_ = last.argI /\ self.column_ = last.argJ
          ELSE self.row_ = -1 /\ self.column_ = -1
    /\ last.op \in DefaultCtors => self.row_ = -1 /\ self.column_ = -1

\* a rook constructed with a valid row and a column that is out of range
C4_Witness ==
    /\ last.op = "Rook(...)"
    /\ last.argI = 2
    /\ last.argJ = BOARD_LENGTH
    /\ self.row_ = -1
    /\ self.column_ = -1

(* C5: setRow(r) with r outside [0, BOARD_LENGTH), and setColumn(c) with c *)
(* outside it, leave row = -1 and column = -1 and do not change color or   *)
(* movingUp.                                                               *)
C5_InvalidCoordinate ==
    [][(last'.op \in {"setRow", "setColumn"} /\ ~InRange(last'.argI)) =>
         /\ self'.row_ = -1
         /\ self'.column_ = -1
         /\ self'.color_ = self.color_
         /\ self'.movingUp_ = self.movingUp_]_vars

\* setRow(BOARD_LENGTH) took a piece off the board
C5_Witness ==
    /\ last.op = "setRow"
    /\ last.argI = BOARD_LENGTH
    /\ self.row_ = -1
    /\ self.column_ = -1
    /\ self.color_ = <<65>>
    /\ self.movingUp_

(* C6: canCastle(piece) is true exactly when the rook has castle moves     *)
(* left, both colors are equal, neither piece has a -1 row or column, the  *)
(* rows are equal and the columns differ by at most 1; the piece may be    *)
(* the rook itself.                                                        *)
C6_CanCastle ==
    last.op = "canCastle" =>
        LET piece == IF last.same THEN self ELSE other
        IN  last.ret <=>
              /\ self.castle_moves_left_ > 0
              /\ self.color_ = piece.color_
              /\ self.row_ # -1 /\ self.column_ # -1
              /\ piece.row_ # -1 /\ piece.column_ # -1
              /\ self.row_ = piece.row_
              /\ self.column_ - piece.column_ \in {-1, 0, 1}

\* the rook can castle with a second piece in the next column
C6_Witness ==
    /\ last.op = "canCastle"
    /\ ~last.same
    /\ last.ret
    /\ self.row_ = 1 /\ other.row_ = 1
    /\ self.column_ = 1 /\ other.column_ = 2

(* C7: a rook's castleMovesLeft is max(0, castleMoves) of the value given  *)
(* at construction, 3 for a default-constructed rook, hence never          *)
(* negative; no call changes it, canCastle included.                       *)
C7_CastleMovesLeft ==
    /\ self.castle_moves_left_ =
          (IF built.dflt THEN 3
           ELSE IF built.castleMoves < 0 THEN 0 ELSE built.castleMoves)
    /\ self.castle_moves_left_ >= 0
    /\ last.op = "getCastleMovesLeft" => last.val = self.castle_moves_left_

\* canCastle returned true and the two moves given at construction remain
C7_Witness ==
    /\ last.op = "canCastle"
    /\ last.ret
    /\ ~built.dflt
    /\ built.castleMoves = 2
    /\ self.castle_moves_left_ = 2

(* C8: canPromote() is true exactly when the pawn moves up and is on row   *)
(* BOARD_LENGTH - 1, or moves down and is on row 0; it changes no field.   *)
C8_CanPromote ==
    [][last'.op = "canPromote" =>
         /\ self' = self
         /\ last'.ret <=>
               \/ (self.movingUp_ /\ self.row_ = BOARD_LENGTH - 1)
               \/ (~self.movingUp_ /\ self.row_ = 0)]_vars

\* a pawn moving up on the last row is promotable
C8_Witness ==
    /\ last.op = "canPromote"
    /\ last.ret
    /\ self.movingUp_
    /\ self.row_ = BOARD_LENGTH - 1

(* C9: a pawn whose row is -1 is never promotable, whichever way it moves. *)
C9_OffBoardNotPromotable ==
    (self.kind = "Pawn" /\ self.row_ = -1) => ~canPromote(self)

\* canPromote was called on a pawn moving up that was taken off the board
C9_Witness ==
    /\ last.op = "canPromote"
    /\ ~last.ret
    /\ self.kind = "Pawn"
    /\ self.row_ = -1
    /\ self.movingUp_
    /\ self.double_jumpable_

(* C10: display() writes exactly one line and changes no field: for a      *)
(* piece with row and column both not -1 the line is "<COLOR> piece at     *)
(* (<row>,<column>) is moving UP" or "... DOWN" by movingUp, otherwise     *)
(* "<COLOR> piece is not on the board".                                    *)
C10_Display ==
    [][last'.op = "display" =>
         /\ self' = self
         /\ last'.out = ExpectedLine(self) \o <<10>>
         /\ LineCount(last'.out) = 1]_vars

\* "BLACK piece at (2,4) is moving UP"
C10_Witness ==
    /\ last.op = "display"
    /\ self.color_ = BLACK
    /\ self.row_ = 2
    /\ self.column_ = 4
    /\ self.movingUp_
    /\ last.out = <<66, 76, 65, 67, 75, 32, 112, 105, 101, 99, 101, 32, 97,
                    116, 32, 40, 50, 44, 52, 41, 32, 105, 115, 32, 109, 111,
                    118, 105, 110, 103, 32, 85, 80, 10>>

(* C11: setRow(r) with r in [0, BOARD_LENGTH) sets the row to r and       *)
(* leaves column, color and movingUp as they were, also on an off-board    *)
(* piece; setColumn(c) does the same for the column; setColor,             *)
(* setMovingUp and toggleDoubleJump never change the row or the column.    *)
C11_SetterFrames ==
    [][/\ (last'.op = "setRow" /\ InRange(last'.argI)) =>
             /\ self'.row_ = last'.argI
             /\ self'.column_ = self.column_
             /\ self'.color_ = self.color_
             /\ self'.movingUp_ = self.movingUp_
       /\ (last'.op = "setColumn" /\ InRange(last'.argI)) =>
             /\ self'.column_ = last'.argI
             /\ self'.row_ = self.row_
             /\ self'.color_ = self.color_
             /\ self'.movingUp_ = self.movingUp_
       /\ last'.op \in {"setColor", "setMovingUp", "toggleDoubleJump"} =>
             /\ self'.row_ = self.row_
             /\ self'.column_ = self.column_]_vars

\* setColumn(4) on an off-board piece stored the column and left the row
C11_Witness ==
    /\ last.op = "setColumn"
    /\ last.argI = 4
    /\ self.column_ = 4
    /\ self.row_ = -1
    /\ self.color_ = <<65>>
    /\ self.movingUp_

(* C12: a promotable pawn is on the board: canPromote() true implies that  *)
(* row and column are both in [0, BOARD_LENGTH); a pawn whose column is -1 *)
(* is never promotable.                                                    *)
C12_PromotableIsOnBoard ==
    (self.kind = "Pawn" /\ canPromote(self)) =>
        (InRange(self.row_) /\ InRange(self.column_))

====
